---- MODULE Spec2Model ----
(***************************************************************************)
(* Model of pkg/controller/foundationdbcluster/foundationdbcluster_admin_  *)
(* client.go: the RealAdminClient operations ConfigureDatabase,            *)
(* ExcludeInstances and IncludeInstances running as optimistic             *)
(* transactions against one FoundationDB system keyspace, and the          *)
(* exclusion lists of the MockAdminClient (mock).                          *)
(*                                                                         *)
(* Keys and values are byte strings, modelled as sequences of byte values. *)
(* The store is the map db from present keys to values, the committed      *)
(* version counter and, for each key a transaction of this client may      *)
(* read-conflict on, the version that last wrote it; log is the history of *)
(* the committed transactions.                                             *)
(***************************************************************************)
EXTENDS Integers, Sequences, FiniteSets, TLC

VARIABLES db, version, lastWrite, log, pc, call, tr, result, ops, nextID, faults, calls,
          mock

vars ==
    <<db, version, lastWrite, log, pc, call, tr, result, ops, nextID, faults, calls, mock>>

(***************************************************************************)
(* Bounds of the model.                                                    *)
(***************************************************************************)
\* calls started in one behaviour, over all callers
MaxCalls == 2
\* failures the store injects in one behaviour (besides real conflicts)
MaxFaults == 1

Procs == {"p1", "p2"}

(***************************************************************************)
(* Byte strings.                                                           *)
(***************************************************************************)
\* bytes.Compare(a, b) < 0: the store orders keys bytewise
RECURSIVE BytesLessFrom(_, _, _)
BytesLessFrom(a, b, i) ==
    IF i > Len(b) THEN FALSE
    ELSE IF i > Len(a) THEN TRUE
    ELSE IF a[i] # b[i] THEN a[i] < b[i]
    ELSE BytesLessFrom(a, b, i + 1)

BytesLess(a, b) == BytesLessFrom(a, b, 1)

\* mutant of PutUint32: the most significant byte first
PutUint32BigEndian(n) ==
    << (n \div 16777216) % 256, (n \div 65536) % 256, (n \div 256) % 256, n % 256 >>

\* binary.LittleEndian.PutUint32
PutUint32(n) ==
    << n % 256, (n \div 256) % 256, (n \div 65536) % 256, (n \div 16777216) % 256 >>

\* "\x01\x00\x04Q\xa5\x00\xdb\x0f"
configurationProtocolVersion == <<1, 0, 4, 81, 165, 0, 219, 15>>

\* "\xff/init_id"
initIDKey == <<255, 47, 105, 110, 105, 116, 95, 105, 100>>
\* "\xff/conf/initialized"
initializedKey ==
    <<255, 47, 99, 111, 110, 102, 47, 105, 110, 105, 116, 105, 97, 108, 105, 122, 101, 100>>
\* "\xff/conf/storage_replicas"
storageReplicasKey ==
    <<255, 47, 99, 111, 110, 102, 47,
      115, 116, 111, 114, 97, 103, 101, 95, 114, 101, 112, 108, 105, 99, 97, 115>>
\* "\xff/conf/log_replicas"
logReplicasKey ==
    <<255, 47, 99, 111, 110, 102, 47, 108, 111, 103, 95, 114, 101, 112, 108, 105, 99, 97, 115>>
\* "\xff/conf/log_anti_quorum"
logAntiQuorumKey ==
    <<255, 47, 99, 111, 110, 102, 47,
      108, 111, 103, 95, 97, 110, 116, 105, 95, 113, 117, 111, 114, 117, 109>>
\* "\xff/conf/storage_replication_policy"
storageReplicationPolicyKey ==
    <<255, 47, 99, 111, 110, 102, 47,
      115, 116, 111, 114, 97, 103, 101, 95, 114, 101, 112, 108, 105, 99, 97, 116, 105, 111,
      110, 95, 112, 111, 108, 105, 99, 121>>
\* "\xff/conf/log_replication_policy"
logReplicationPolicyKey ==
    <<255, 47, 99, 111, 110, 102, 47,
      108, 111, 103, 95, 114, 101, 112, 108, 105, 99, 97, 116, 105, 111, 110, 95, 112, 111,
      108, 105, 99, 121>>
\* "\xff/conf/storage_engine"
storageEngineKey ==
    <<255, 47, 99, 111, 110, 102, 47,
      115, 116, 111, 114, 97, 103, 101, 95, 101, 110, 103, 105, 110, 101>>
\* "\xff/conf/log_engine"
logEngineKey ==
    <<255, 47, 99, 111, 110, 102, 47, 108, 111, 103, 95, 101, 110, 103, 105, 110, 101>>
\* "\xff/conf/excluded"
excludedKey ==
    <<255, 47, 99, 111, 110, 102, 47, 101, 120, 99, 108, 117, 100, 101, 100>>
\* "\xff/conf/excluded/"
excludedPrefix ==
    <<255, 47, 99, 111, 110, 102, 47, 101, 120, 99, 108, 117, 100, 101, 100, 47>>

\* the seven keys getConfigurationKeys emits
ConfigurationKeySet ==
    { storageReplicasKey, logReplicasKey, logAntiQuorumKey, storageReplicationPolicyKey,
      logReplicationPolicyKey, storageEngineKey, logEngineKey }

(***************************************************************************)
(* Replication policies and their encoding.                                *)
(***************************************************************************)
singletonPolicy == [type |-> "singleton"]

acrossPolicy(count, field, subpolicy) ==
    [type |-> "across", Count |-> count, Field |-> field, Subpolicy |-> subpolicy]

\* "zoneid"
zoneid == <<122, 111, 110, 101, 105, 100>>

\* singletonPolicy.BinaryRepresentation: "\x03\x00\x00\x00One"
singletonBinaryRepresentation == <<3, 0, 0, 0, 79, 110, 101>>

RECURSIVE BinaryRepresentation(_)
BinaryRepresentation(policy) ==
    IF policy.type = "singleton"
    THEN singletonBinaryRepresentation
    ELSE PutUint32(6) \o <<65, 99, 114, 111, 115, 115>>
         \o PutUint32(Len(policy.Field)) \o policy.Field
         \o PutUint32(policy.Count)
         \o BinaryRepresentation(policy.Subpolicy)

(***************************************************************************)
(* Errors.  An error value is a record: kind "nil" (no error), "fdb" (an   *)
(* fdb.Error with its Code), "fmt" (the fmt.Errorf of the key builder),    *)
(* "errors" (the errors.New of checkConfigurationInitID); "none" marks a   *)
(* call that has not returned.                                             *)
(***************************************************************************)
NoResult == [kind |-> "none", code |-> 0, msg |-> ""]
Nil == [kind |-> "nil", code |-> 0, msg |-> ""]
FdbError(c) == [kind |-> "fdb", code |-> c, msg |-> ""]
UnknownReplicationMode == [kind |-> "fmt", code |-> 0, msg |-> "Unknown replication mode"]
UnknownStorageEngine == [kind |-> "fmt", code |-> 0, msg |-> "Unknown storage engine"]
DatabaseAlreadyCreated ==
    [kind |-> "errors", code |-> 0, msg |-> "Database has already been created"]

(***************************************************************************)
(* DatabaseConfiguration.getConfigurationKeys                              *)
(***************************************************************************)
KeyValue(k, v) == [Key |-> k, Value |-> v]

ReplicationPolicyOf(mode) ==
    CASE mode = "single" -> singletonPolicy
      [] mode = "double" -> acrossPolicy(2, zoneid, singletonPolicy)
      [] mode = "triple" -> acrossPolicy(3, zoneid, singletonPolicy)

ReplicasOf(mode) ==
    CASE mode = "single" -> <<49>>
      [] mode = "double" -> <<50>>
      [] mode = "triple" -> <<51>>

EngineOf(engine) ==
    CASE engine = "ssd" -> <<49>>
      [] engine = "memory" -> <<50>>

\* mutant of getConfigurationKeys: the storage engine is not validated
getConfigurationKeysEngineUnchecked(configuration) ==
    IF configuration.ReplicationMode \notin {"single", "double", "triple"}
    THEN [keys |-> <<>>, err |-> UnknownReplicationMode]
    ELSE LET replicas == ReplicasOf(configuration.ReplicationMode)
             policyBytes ==
                 configurationProtocolVersion
                 \o BinaryRepresentation(ReplicationPolicyOf(configuration.ReplicationMode))
             engine == IF configuration.StorageEngine = "memory" THEN <<50>> ELSE <<49>>
         IN  [keys |-> << KeyValue(storageReplicasKey, replicas),
                          KeyValue(logReplicasKey, replicas),
                          KeyValue(logAntiQuorumKey, <<48>>),
                          KeyValue(storageReplicationPolicyKey, policyBytes),
                          KeyValue(logReplicationPolicyKey, policyBytes),
                          KeyValue(storageEngineKey, engine),
                          KeyValue(logEngineKey, engine) >>,
              err |-> Nil]

getConfigurationKeys(configuration) ==
    IF configuration.ReplicationMode \notin {"single", "double", "triple"}
    THEN [keys |-> <<>>, err |-> UnknownReplicationMode]
    ELSE IF configuration.StorageEngine \notin {"ssd", "memory"}
    THEN [keys |-> <<>>, err |-> UnknownStorageEngine]
    ELSE LET replicas == ReplicasOf(configuration.ReplicationMode)
             policyBytes ==
                 configurationProtocolVersion
                 \o BinaryRepresentation(ReplicationPolicyOf(configuration.ReplicationMode))
             engine == EngineOf(configuration.StorageEngine)
         IN  [keys |-> << KeyValue(storageReplicasKey, replicas),
                          KeyValue(logReplicasKey, replicas),
                          KeyValue(logAntiQuorumKey, <<48>>),
                          KeyValue(storageReplicationPolicyKey, policyBytes),
                          KeyValue(logReplicationPolicyKey, policyBytes),
                          KeyValue(storageEngineKey, engine),
                          KeyValue(logEngineKey, engine) >>,
              err |-> Nil]

(***************************************************************************)
(* The store: mutations, key ranges and conflict detection.                *)
(***************************************************************************)
SetOp(k, v) == [op |-> "set", key |-> k, value |-> v, end |-> <<>>]
ClearOp(k) == [op |-> "clear", key |-> k, value |-> <<>>, end |-> <<>>]
ClearRangeOp(b, e) == [op |-> "clearRange", key |-> b, value |-> <<>>, end |-> e]

\* begin <= k < end
InRange(k, b, e) == ~BytesLess(k, b) /\ BytesLess(k, e)

\* fdb.Strinc: drop trailing 0xFF bytes, then increment the last byte
RECURSIVE StripFF(_)
StripFF(s) ==
    IF s # <<>> /\ s[Len(s)] = 255 THEN StripFF(SubSeq(s, 1, Len(s) - 1)) ELSE s

Strinc(prefix) ==
    LET s == StripFF(prefix) IN [s EXCEPT ![Len(s)] = s[Len(s)] + 1]

\* fdb.PrefixRange: the keys that begin with prefix
PrefixRange(prefix) == [Begin |-> prefix, End |-> Strinc(prefix)]

ApplyMutation(d, m) ==
    CASE m.op = "set" ->
             [k \in (DOMAIN d) \cup {m.key} |-> IF k = m.key THEN m.value ELSE d[k]]
      [] m.op = "clear" ->
             [k \in (DOMAIN d) \ {m.key} |-> d[k]]
      [] m.op = "clearRange" ->
             [k \in {x \in DOMAIN d : ~InRange(x, m.key, m.end)} |-> d[k]]

RECURSIVE ApplyMutations(_, _)
ApplyMutations(d, ms) ==
    IF ms = <<>> THEN d ELSE ApplyMutations(ApplyMutation(d, Head(ms)), Tail(ms))

\* the mutation writes key k
Touches(m, k) ==
    \/ m.op \in {"set", "clear"} /\ m.key = k
    \/ m.op = "clearRange" /\ InRange(k, m.key, m.end)

\* tr.Get: the value of a key, nil when the key is absent
Read(d, k) ==
    IF k \in DOMAIN d THEN [present |-> TRUE, value |-> d[k]]
    ELSE [present |-> FALSE, value |-> <<>>]

\* mutant of DeepEqual: the lengths are compared, not the bytes
DeepEqualLength(current, desired) ==
    current.present /\ Len(current.value) = Len(desired)

\* reflect.DeepEqual(currentValue, desired) for a non-empty desired byte slice
DeepEqual(current, desired) == current.present /\ current.value = desired

\* a transaction after CreateTransaction, Reset or a retried OnError
NewTransaction == [rv |-> -1, readConflicts |-> {}, writes |-> <<>>, gets |-> 0]

\* the keys the transactions of this client add read conflicts on: line 207,
\* lines 290 and 329, and the keys read at line 224
ConflictKeys ==
    << initIDKey, excludedKey, storageReplicasKey, logReplicasKey, logAntiQuorumKey,
       storageReplicationPolicyKey, logReplicationPolicyKey, storageEngineKey,
       logEngineKey >>

\* the resolver: a transaction is rejected when a key it read-conflicts on was
\* written by a transaction committed after its read version
Conflicts(t) ==
    \E i \in 1..Len(ConflictKeys) :
        /\ ConflictKeys[i] \in t.readConflicts
        /\ lastWrite[i] > t.rv

\* the versions of the last writes once the mutations ms commit at version cv
LastWriteAfter(ms, cv) ==
    [i \in 1..Len(ConflictKeys) |->
        IF \E j \in 1..Len(ms) : Touches(ms[j], ConflictKeys[i])
        THEN cv ELSE lastWrite[i]]

(***************************************************************************)
(* Store errors.                                                           *)
(***************************************************************************)
\* not_committed
notCommitted == 1020
\* transaction_too_old
transactionTooOld == 1007

\* the codes tr.OnError retries after its backoff: transaction_too_old,
\* future_version, not_committed, commit_unknown_result
RetryableCodes == {1007, 1009, 1020, 1021}

\* tr.OnError(e).Get(): nil when e is retryable (the transaction is reset),
\* the error itself otherwise
OnError(e) == IF e.code \in RetryableCodes THEN Nil ELSE e

\* failures the store may answer a read with: transaction_too_old (retryable),
\* transaction_timed_out (not retryable)
GetFaults == {1007, 1031}
\* failures the store may answer a commit with, the commit not applied:
\* transaction_too_old, commit_unknown_result, transaction_timed_out
CommitFaults == {1007, 1021, 1031}
\* the failure of a commit that was applied: commit_unknown_result
AppliedCommitFaults == {1021}

\* err.(fdb.Error): the error and true for an fdb.Error, the zero fdb.Error
\* and false for any other error
TypeAssertFdb(err) ==
    IF err.kind = "fdb" THEN [val |-> err, ok |-> TRUE]
    ELSE [val |-> FdbError(0), ok |-> FALSE]

(***************************************************************************)
(* Inputs.                                                                 *)
(***************************************************************************)
Configuration(m, e) == [ReplicationMode |-> m, StorageEngine |-> e]
\* the configurations callers pass: valid ones that differ in the mode, in the
\* engine or in both, an unknown mode, and a valid mode with an unknown engine
Configurations ==
    { Configuration("double", "ssd"), Configuration("double", "memory"),
      Configuration("single", "memory"),
      Configuration("quadruple", "ssd"), Configuration("single", "ssd-2") }

NoCall ==
    [op |-> "none", configuration |-> [ReplicationMode |-> "", StorageEngine |-> ""],
     newDatabase |-> FALSE, initID |-> <<>>, addresses |-> <<>>]

\* the record kept of a call: whether it issued a get, a set or a commit, how
\* it returned, whether a retryable error was retried within it, whether it
\* ran while a call of another client was running, and the code of the last
\* store error the loop of ConfigureDatabase met (fdbErr, 0 before any)
NoOps ==
    [get |-> FALSE, set |-> FALSE, commit |-> FALSE, exit |-> "", absorbed |-> FALSE,
     concurrent |-> FALSE, failure |-> 0]

\* line 151: fdbErr, isFdb := err.(fdb.Error), recorded in the history of the call
Failed(ops1, err) ==
    IF TypeAssertFdb(err).ok THEN [ops1 EXCEPT !.failure = err.code] ELSE ops1

\* the records when p starts a call
OpsAtCall(p) ==
    [q \in Procs |->
        IF q = p THEN [NoOps EXCEPT !.concurrent = \E r \in Procs \ {p} : pc[r] # "idle"]
        ELSE IF pc[q] # "idle" THEN [ops[q] EXCEPT !.concurrent = TRUE]
        ELSE ops[q]]

\* The database at the start: empty (never created), or created earlier by a
\* committed ConfigureDatabase(configuration, true) of another client "p0".
InitialCall(configuration) ==
    [op |-> "ConfigureDatabase", configuration |-> configuration,
     newDatabase |-> TRUE, initID |-> <<0>>, addresses |-> <<>>]

InitialWrites(configuration) ==
    <<SetOp(initIDKey, <<0>>), SetOp(initializedKey, <<49>>)>>
    \o [i \in 1..Len(getConfigurationKeys(configuration).keys) |->
           SetOp(getConfigurationKeys(configuration).keys[i].Key,
                 getConfigurationKeys(configuration).keys[i].Value)]

InitialConfigurations == {Configuration("triple", "ssd")}

Created(c) ==
    /\ db = ApplyMutations(<<>>, InitialWrites(c))
    /\ version = 1
    /\ lastWrite = [i \in 1..Len(ConflictKeys) |->
                       IF \E j \in 1..Len(InitialWrites(c)) :
                              Touches(InitialWrites(c)[j], ConflictKeys[i])
                       THEN 1 ELSE 0]
    /\ log = << [cv |-> 1, rv |-> 0, proc |-> "p0", call |-> InitialCall(c)] >>

NeverCreated ==
    /\ db = <<>>
    /\ version = 0
    /\ lastWrite = [i \in 1..Len(ConflictKeys) |-> 0]
    /\ log = <<>>

\* lines 374-381: the MockAdminClient of a cluster when the cache has none
NewMockAdminClient == [ExcludedAddresses |-> <<>>, ReincludedAddresses |-> <<>>]

InitClients ==
    /\ pc = [p \in Procs |-> "idle"]
    /\ call = [p \in Procs |-> NoCall]
    /\ tr = [p \in Procs |-> NewTransaction]
    /\ result = [p \in Procs |-> NoResult]
    /\ ops = [p \in Procs |-> NoOps]
    /\ nextID = 1
    /\ faults = 0
    /\ calls = 0
    /\ mock = NewMockAdminClient

\* ConfigureDatabase is called on a database that was never created, or on
\* one created earlier
Init ==
    /\ NeverCreated \/ \E c \in InitialConfigurations : Created(c)
    /\ InitClients

\* processes are excluded from and included in a created database
InitExclusion ==
    /\ \E c \in InitialConfigurations : Created(c)
    /\ InitClients

(***************************************************************************)
(* Steps shared by the operations.                                         *)
(***************************************************************************)
\* the call of p returns err to its caller; ops1 records its store operations
Return(p, err, ops1, how) ==
    /\ pc' = [pc EXCEPT ![p] = "idle"]
    /\ result' = [result EXCEPT ![p] = err]
    /\ tr' = [tr EXCEPT ![p] = NewTransaction]
    /\ ops' = [ops EXCEPT ![p] = [ops1 EXCEPT !.exit = how]]

\* the store applies the transaction of p at the next version
StoreCommit(p) ==
    /\ db' = ApplyMutations(db, tr[p].writes)
    /\ version' = version + 1
    /\ lastWrite' = LastWriteAfter(tr[p].writes, version + 1)
    /\ log' = Append(log, [cv |-> version + 1, rv |-> tr[p].rv, proc |-> p,
                           call |-> call[p]])

(***************************************************************************)
(* RealAdminClient.ConfigureDatabase                                       *)
(***************************************************************************)
\* lines 133-143: CreateTransaction and uuid.NewRandom, once per call
ConfigureDatabase(p, configuration, newDatabase) ==
    /\ pc[p] = "idle"
    /\ calls < MaxCalls
    /\ calls' = calls + 1
    /\ call' = [call EXCEPT ![p] =
                   [op |-> "ConfigureDatabase", configuration |-> configuration,
                    newDatabase |-> newDatabase, initID |-> <<nextID>>,
                    addresses |-> <<>>]]
    /\ nextID' = nextID + 1
    /\ tr' = [tr EXCEPT ![p] = NewTransaction]
    /\ pc' = [pc EXCEPT ![p] = "apply"]
    /\ result' = [result EXCEPT ![p] = NoResult]
    /\ ops' = OpsAtCall(p)
    /\ UNCHANGED <<db, version, lastWrite, log, faults, mock>>

\* mutant of AttemptFailed: a store error outside the race check is returned
\* without asking tr.OnError whether it can be retried
AttemptFailedNoRetry(p, err, ops1) ==
    IF ~TypeAssertFdb(err).ok
    THEN Return(p, err, ops1, "fatal")
    ELSE IF call[p].newDatabase /\ err.code \in {notCommitted, transactionTooOld}
    THEN /\ pc' = [pc EXCEPT ![p] = "racecheck"]
         /\ tr' = [tr EXCEPT ![p] = NewTransaction]
         /\ ops' = [ops EXCEPT ![p] = Failed(ops1, err)]
         /\ UNCHANGED result
    ELSE Return(p, err, Failed(ops1, err), "fatal")

\* mutant of AttemptFailed: 1020 and 1007 lead to the race check whether or
\* not the database is new
AttemptFailedRaceCheckAlways(p, err, ops1) ==
    IF ~TypeAssertFdb(err).ok
    THEN Return(p, err, ops1, "fatal")
    ELSE IF err.code \in {notCommitted, transactionTooOld}
    THEN /\ pc' = [pc EXCEPT ![p] = "racecheck"]
         /\ tr' = [tr EXCEPT ![p] = NewTransaction]
         /\ ops' = [ops EXCEPT ![p] = Failed(ops1, err)]
         /\ UNCHANGED result
    ELSE IF OnError(err) = Nil
    THEN /\ pc' = [pc EXCEPT ![p] = "apply"]
         /\ tr' = [tr EXCEPT ![p] = NewTransaction]
         /\ ops' = [ops EXCEPT ![p] = [Failed(ops1, err) EXCEPT !.absorbed = TRUE]]
         /\ UNCHANGED result
    ELSE Return(p, OnError(err), Failed(ops1, err), "fatal")

\* mutant of AttemptFailed: no race check; 1020 and 1007 are retried like any
\* other retryable error, also for a new database
AttemptFailedNoRaceCheck(p, err, ops1) ==
    IF ~TypeAssertFdb(err).ok
    THEN Return(p, err, ops1, "fatal")
    ELSE IF OnError(err) = Nil
    THEN /\ pc' = [pc EXCEPT ![p] = "apply"]
         /\ tr' = [tr EXCEPT ![p] = NewTransaction]
         /\ ops' = [ops EXCEPT ![p] = [Failed(ops1, err) EXCEPT !.absorbed = TRUE]]
         /\ UNCHANGED result
    ELSE Return(p, OnError(err), Failed(ops1, err), "fatal")

\* mutant of AttemptFailed: the answer of tr.OnError is ignored, every store
\* error outside the race check starts another attempt
AttemptFailedRetryAlways(p, err, ops1) ==
    IF ~TypeAssertFdb(err).ok
    THEN Return(p, err, ops1, "fatal")
    ELSE IF call[p].newDatabase /\ err.code \in {notCommitted, transactionTooOld}
    THEN /\ pc' = [pc EXCEPT ![p] = "racecheck"]
         /\ tr' = [tr EXCEPT ![p] = NewTransaction]
         /\ ops' = [ops EXCEPT ![p] = Failed(ops1, err)]
         /\ UNCHANGED result
    ELSE /\ pc' = [pc EXCEPT ![p] = "apply"]
         /\ tr' = [tr EXCEPT ![p] = NewTransaction]
         /\ ops' = [ops EXCEPT ![p] = [Failed(ops1, err) EXCEPT !.absorbed = TRUE]]
         /\ UNCHANGED result

\* lines 147-176: what the loop of ConfigureDatabase does with the error of
\* an attempt; ops1 records the store operations of the call so far
AttemptFailed(p, err, ops1) ==
    IF ~TypeAssertFdb(err).ok
    THEN Return(p, err, ops1, "fatal")
    ELSE IF call[p].newDatabase /\ err.code \in {notCommitted, transactionTooOld}
    THEN \* tr.Reset(), then the race check
         /\ pc' = [pc EXCEPT ![p] = "racecheck"]
         /\ tr' = [tr EXCEPT ![p] = NewTransaction]
         /\ ops' = [ops EXCEPT ![p] = Failed(ops1, err)]
         /\ UNCHANGED result
    ELSE IF OnError(err) = Nil
    THEN \* the next round of the loop, with the transaction reset
         /\ pc' = [pc EXCEPT ![p] = "apply"]
         /\ tr' = [tr EXCEPT ![p] = NewTransaction]
         /\ ops' = [ops EXCEPT ![p] = [Failed(ops1, err) EXCEPT !.absorbed = TRUE]]
         /\ UNCHANGED result
    ELSE Return(p, OnError(err), Failed(ops1, err), "fatal")

\* mutant of match: the value read is not compared, every key is set
matchNever(d, newDatabase, keyValue) == FALSE

\* lines 221-233: the sets issued for the keys, read from the snapshot d when
\* the database is not new
match(d, newDatabase, keyValue) ==
    IF ~newDatabase THEN DeepEqual(Read(d, keyValue.Key), keyValue.Value) ELSE FALSE

RECURSIVE ConfigurationWrites(_, _, _)
ConfigurationWrites(d, newDatabase, keys) ==
    IF keys = <<>> THEN <<>>
    ELSE (IF ~match(d, newDatabase, Head(keys))
          THEN <<SetOp(Head(keys).Key, Head(keys).Value)>> ELSE <<>>)
         \o ConfigurationWrites(d, newDatabase, Tail(keys))

\* mutant of ReadConflictKeys: the reads of the keys add no read conflict
ReadConflictKeysSnapshotReads(newDatabase, keys) ==
    IF newDatabase THEN {initIDKey} ELSE {}

\* the read-conflict keys of an attempt: line 207 (AddReadConflictKey) for a
\* new database, the keys read by tr.Get (line 224) otherwise
ReadConflictKeys(newDatabase, keys) ==
    IF newDatabase THEN {initIDKey} ELSE {keys[i].Key : i \in 1..Len(keys)}

\* mutant of InitializationWrites: the flag "\xff/conf/initialized" is not set
InitializationWritesMarkerOnly(newDatabase, initID) ==
    IF newDatabase THEN <<SetOp(initIDKey, initID)>> ELSE <<>>

\* lines 201-213: the marker and the flag, written for a new database only
InitializationWrites(newDatabase, initID) ==
    IF newDatabase
    THEN <<SetOp(initIDKey, initID), SetOp(initializedKey, <<49>>)>>
    ELSE <<>>

\* the read version of an attempt: SetInitializeNewDatabase (line 202) pins it
\* to version 0, the empty database; otherwise the first tr.Get takes the
\* store's current version
ReadVersion(newDatabase) == IF newDatabase THEN 0 ELSE version

\* lines 184-234: one attempt up to its commit
configureDatabaseInTransaction(p) ==
    /\ pc[p] = "apply"
    /\ LET c == call[p]
           built == getConfigurationKeys(c.configuration)
           ops0 == ops[p]
       IN  \/ /\ built.err # Nil
              /\ AttemptFailed(p, built.err, ops0)
              /\ UNCHANGED <<db, version, lastWrite, log, call, nextID, faults, calls>>
           \/ /\ built.err = Nil
              /\ LET writes == InitializationWrites(c.newDatabase, c.initID)
                               \o ConfigurationWrites(db, c.newDatabase, built.keys)
                 IN  /\ tr' = [tr EXCEPT ![p] =
                                  [rv |-> ReadVersion(c.newDatabase),
                                   readConflicts |->
                                       ReadConflictKeys(c.newDatabase, built.keys),
                                   writes |-> writes,
                                   gets |-> IF c.newDatabase THEN 0 ELSE Len(built.keys)]]
                     /\ ops' = [ops EXCEPT ![p] =
                                   [ops0 EXCEPT !.get = @ \/ ~c.newDatabase,
                                                !.set = @ \/ writes # <<>>]]
              /\ pc' = [pc EXCEPT ![p] = "commit"]
              /\ UNCHANGED <<db, version, lastWrite, log, call, result, nextID, faults, calls>>
           \/ \* a tr.Get (line 224) fails
              /\ built.err = Nil
              /\ ~c.newDatabase
              /\ faults < MaxFaults
              /\ faults' = faults + 1
              /\ \E e \in GetFaults :
                     AttemptFailed(p, FdbError(e), [ops0 EXCEPT !.get = TRUE])
              /\ UNCHANGED <<db, version, lastWrite, log, call, nextID, calls>>
    /\ UNCHANGED mock

\* line 235: tr.Commit().Get()
Commit(p) ==
    /\ pc[p] = "commit"
    /\ LET t == tr[p]
           ops1 == [ops[p] EXCEPT !.commit = TRUE]
       IN  \/ \* nothing to write: the commit of a read-only transaction succeeds
              /\ t.writes = <<>>
              /\ Return(p, Nil, ops1, "commit")
              /\ UNCHANGED <<db, version, lastWrite, log, faults>>
           \/ /\ t.writes # <<>>
              /\ Conflicts(t)
              /\ AttemptFailed(p, FdbError(notCommitted), ops1)
              /\ UNCHANGED <<db, version, lastWrite, log, faults>>
           \/ /\ t.writes # <<>>
              /\ ~Conflicts(t)
              /\ StoreCommit(p)
              /\ Return(p, Nil, ops1, "commit")
              /\ UNCHANGED faults
           \/ \* applied, but the answer is lost
              /\ t.writes # <<>>
              /\ ~Conflicts(t)
              /\ faults < MaxFaults
              /\ faults' = faults + 1
              /\ StoreCommit(p)
              /\ \E e \in AppliedCommitFaults : AttemptFailed(p, FdbError(e), ops1)
           \/ \* not applied
              /\ t.writes # <<>>
              /\ faults < MaxFaults
              /\ faults' = faults + 1
              /\ \E e \in CommitFaults : AttemptFailed(p, FdbError(e), ops1)
              /\ UNCHANGED <<db, version, lastWrite, log>>
    /\ UNCHANGED <<call, nextID, calls, mock>>

\* mutant of checkConfigurationInitID: a marker that is present is taken for
\* the token of another call
checkConfigurationInitIDPresence(d, initID) ==
    IF Read(d, initIDKey).present THEN DatabaseAlreadyCreated ELSE Nil

\* lines 243-265: the comparison of the marker read from d with the token
checkConfigurationInitID(d, initID) ==
    IF ~DeepEqual(Read(d, initIDKey), initID) THEN DatabaseAlreadyCreated ELSE Nil

\* lines 157-170: one round of the race-check loop
RaceCheck(p) ==
    /\ pc[p] = "racecheck"
    /\ LET ops1 == [ops[p] EXCEPT !.get = TRUE] IN
       \/ \* the read of the marker succeeds
          /\ LET err == checkConfigurationInitID(db, call[p].initID) IN
                 IF err = Nil
                 THEN Return(p, err, ops1, "raceWon")
                 ELSE \* line 162-165: fdbErr, isFdb = err.(fdb.Error); return fdbErr
                      Return(p, TypeAssertFdb(err).val, ops1, "raceLost")
          /\ UNCHANGED faults
       \/ \* the read of the marker fails
          /\ faults < MaxFaults
          /\ faults' = faults + 1
          /\ \E e \in GetFaults :
                 IF OnError(FdbError(e)) = Nil
                 THEN /\ ops' = [ops EXCEPT ![p] =
                                   [Failed(ops1, FdbError(e)) EXCEPT !.absorbed = TRUE]]
                      /\ UNCHANGED <<pc, tr, result>>
                 ELSE Return(p, OnError(FdbError(e)), Failed(ops1, FdbError(e)), "fatal")
    /\ UNCHANGED <<db, version, lastWrite, log, call, nextID, calls, mock>>

NextConfigure ==
    \E p \in Procs :
        \/ \E c \in Configurations, n \in BOOLEAN : ConfigureDatabase(p, c, n)
        \/ configureDatabaseInTransaction(p)
        \/ Commit(p)
        \/ RaceCheck(p)

SpecConfigure == Init /\ [][NextConfigure]_vars

(***************************************************************************)
(* RealAdminClient.ExcludeInstances and IncludeInstances                   *)
(***************************************************************************)
\* "10.0.0.1", "10.0.0.1:4500", "10.0.0.10"
host1 == <<49, 48, 46, 48, 46, 48, 46, 49>>
host1port == <<49, 48, 46, 48, 46, 48, 46, 49, 58, 52, 53, 48, 48>>
host10 == <<49, 48, 46, 48, 46, 48, 46, 49, 48>>

\* the address lists callers pass
AddressLists ==
    { <<host1>>, <<host1port, host10>> }

\* lines 269 and 308: the call, which hands its function to Database.Transact
StartCall(p, op, addresses) ==
    /\ pc[p] = "idle"
    /\ calls < MaxCalls
    /\ calls' = calls + 1
    /\ call' = [call EXCEPT ![p] =
                   [op |-> op, configuration |-> NoCall.configuration,
                    newDatabase |-> FALSE, initID |-> <<>>, addresses |-> addresses]]
    /\ tr' = [tr EXCEPT ![p] = NewTransaction]
    /\ pc' = [pc EXCEPT ![p] = "transact"]
    /\ result' = [result EXCEPT ![p] = NoResult]
    /\ ops' = OpsAtCall(p)
    /\ UNCHANGED <<db, version, lastWrite, log, nextID, faults>>

ExcludeInstances(p, addresses) ==
    StartCall(p, "ExcludeInstances", addresses) /\ UNCHANGED mock

IncludeInstances(p, addresses) ==
    StartCall(p, "IncludeInstances", addresses) /\ UNCHANGED mock

\* lines 292-300: one empty-valued key per address
RECURSIVE ExcludeWrites(_)
ExcludeWrites(addresses) ==
    IF addresses = <<>> THEN <<>>
    ELSE <<SetOp(excludedPrefix \o Head(addresses), <<>>)>>
         \o ExcludeWrites(Tail(addresses))

\* mutant of IncludeRange: the range of the key itself, without the colon
IncludeRangeNoColon(key) == PrefixRange(key)

\* lines 331-347: clear the key of the address, and the keys that begin with
\* the key followed by a colon (58)
IncludeRange(key) == PrefixRange(key \o <<58>>)

\* mutant of IncludeWrites: the key of the address itself is not cleared
RECURSIVE IncludeWritesRangeOnly(_)
IncludeWritesRangeOnly(addresses) ==
    IF addresses = <<>> THEN <<>>
    ELSE LET keyRange == PrefixRange(excludedPrefix \o Head(addresses) \o <<58>>)
         IN  <<ClearRangeOp(keyRange.Begin, keyRange.End)>>
             \o IncludeWritesRangeOnly(Tail(addresses))

RECURSIVE IncludeWrites(_)
IncludeWrites(addresses) ==
    IF addresses = <<>> THEN <<>>
    ELSE LET key == excludedPrefix \o Head(addresses)
             keyRange == IncludeRange(key)
         IN  <<ClearOp(key), ClearRangeOp(keyRange.Begin, keyRange.End)>>
             \o IncludeWrites(Tail(addresses))

\* mutant of ExclusionReadConflictKeys: no read conflict on the epoch key
NoReadConflictKeys == {}

\* lines 290 and 329: tr.AddReadConflictKey
ExclusionReadConflictKeys == {excludedKey}

\* lines 270-302 and 309-349: the function handed to Transact, run on a fresh
\* or reset transaction; a transaction that read nothing takes its read version
\* when its commit starts
TransactBody(p) ==
    /\ pc[p] = "transact"
    /\ LET exclusionID == <<nextID>>
           body == IF call[p].op = "ExcludeInstances"
                   THEN ExcludeWrites(call[p].addresses)
                   ELSE IncludeWrites(call[p].addresses)
       IN  tr' = [tr EXCEPT ![p] =
                     [rv |-> version, readConflicts |-> ExclusionReadConflictKeys,
                      writes |-> <<SetOp(excludedKey, exclusionID)>> \o body,
                      gets |-> 0]]
    /\ nextID' = nextID + 1
    /\ pc' = [pc EXCEPT ![p] = "txcommit"]
    /\ ops' = [ops EXCEPT ![p].set = TRUE]
    /\ UNCHANGED <<db, version, lastWrite, log, call, result, faults, calls, mock>>

\* mutant of TransactFailed: the error is returned, the function is not run again
TransactFailedNoRetry(p, err, ops1) == Return(p, err, ops1, "fatal")

\* Database.Transact (lines 270 and 309) with the error of the commit: it
\* calls tr.OnError and runs the function again when the error is retryable
TransactFailed(p, err, ops1) ==
    IF OnError(err) = Nil
    THEN /\ pc' = [pc EXCEPT ![p] = "transact"]
         /\ tr' = [tr EXCEPT ![p] = NewTransaction]
         /\ ops' = [ops EXCEPT ![p] = [ops1 EXCEPT !.absorbed = TRUE]]
         /\ UNCHANGED result
    ELSE Return(p, OnError(err), ops1, "fatal")

\* the commit Transact issues after the function has returned
TransactCommit(p) ==
    /\ pc[p] = "txcommit"
    /\ LET t == tr[p]
           ops1 == [ops[p] EXCEPT !.commit = TRUE]
       IN  \/ /\ Conflicts(t)
              /\ TransactFailed(p, FdbError(notCommitted), ops1)
              /\ UNCHANGED <<db, version, lastWrite, log, faults>>
           \/ /\ ~Conflicts(t)
              /\ StoreCommit(p)
              /\ Return(p, Nil, ops1, "commit")
              /\ UNCHANGED faults
           \/ \* applied, but the answer is lost
              /\ ~Conflicts(t)
              /\ faults < MaxFaults
              /\ faults' = faults + 1
              /\ StoreCommit(p)
              /\ \E e \in AppliedCommitFaults : TransactFailed(p, FdbError(e), ops1)
           \/ \* not applied
              /\ faults < MaxFaults
              /\ faults' = faults + 1
              /\ \E e \in CommitFaults : TransactFailed(p, FdbError(e), ops1)
              /\ UNCHANGED <<db, version, lastWrite, log>>
    /\ UNCHANGED <<call, nextID, calls, mock>>

NextExclusion ==
    \E p \in Procs :
        \/ \E a \in AddressLists : ExcludeInstances(p, a)
        \/ \E a \in AddressLists : IncludeInstances(p, a)
        \/ TransactBody(p)
        \/ TransactCommit(p)

SpecExclusion == InitExclusion /\ [][NextExclusion]_vars

(***************************************************************************)
(* MockAdminClient.ExcludeInstances and IncludeInstances                   *)
(***************************************************************************)
\* address is an element of addresses (lines 407-413: address == excludedAddress)
Contains(addresses, address) ==
    \E i \in 1..Len(addresses) : addresses[i] = address

\* lines 396-399: append(client.ExcludedAddresses, addresses...)
MockExcludeInstances(client, addresses) ==
    [client EXCEPT !.ExcludedAddresses = @ \o addresses]

\* lines 404-417: the excluded addresses that equal none of addresses
RECURSIVE newExclusions(_, _)
newExclusions(excluded, addresses) ==
    IF excluded = <<>> THEN <<>>
    ELSE (IF Contains(addresses, Head(excluded)) THEN <<>> ELSE <<Head(excluded)>>)
         \o newExclusions(Tail(excluded), addresses)

\* line 410: the excluded addresses that equal one of addresses
RECURSIVE Reincluded(_, _)
Reincluded(excluded, addresses) ==
    IF excluded = <<>> THEN <<>>
    ELSE (IF Contains(addresses, Head(excluded)) THEN <<Head(excluded)>> ELSE <<>>)
         \o Reincluded(Tail(excluded), addresses)

\* lines 403-420
MockIncludeInstances(client, addresses) ==
    [ExcludedAddresses |-> newExclusions(client.ExcludedAddresses, addresses),
     ReincludedAddresses |->
         client.ReincludedAddresses \o Reincluded(client.ExcludedAddresses, addresses)]

\* A caller makes the same calls, one after another, on a RealAdminClient and
\* on the MockAdminClient: the call on the mock returns at once, the call on
\* the store runs as a transaction.
ExcludeBoth(p, addresses) ==
    /\ \A q \in Procs : pc[q] = "idle"
    /\ StartCall(p, "ExcludeInstances", addresses)
    /\ mock' = MockExcludeInstances(mock, addresses)

IncludeBoth(p, addresses) ==
    /\ \A q \in Procs : pc[q] = "idle"
    /\ StartCall(p, "IncludeInstances", addresses)
    /\ mock' = MockIncludeInstances(mock, addresses)

NextMock ==
    \E p \in Procs :
        \/ \E a \in AddressLists : ExcludeBoth(p, a)
        \/ \E a \in AddressLists : IncludeBoth(p, a)
        \/ TransactBody(p)
        \/ TransactCommit(p)

SpecMock == InitExclusion /\ [][NextMock]_vars

(***************************************************************************)
(* Properties.                                                             *)
(***************************************************************************)
\* p has made a ConfigureDatabase call that has returned
Returned(p) == pc[p] = "idle" /\ result[p] # NoResult

Configured(p) == call[p].op = "ConfigureDatabase"

ValidConfiguration(c) ==
    c.ReplicationMode \in {"single", "double", "triple"} /\ c.StorageEngine \in {"ssd", "memory"}

\* the database was never created before the calls of this behaviour
StartedEmpty == log = <<>> \/ log[1].proc # "p0"

\* the seven configuration keys of d hold what configuration c asks for
HoldsConfiguration(d, c) ==
    LET keys == getConfigurationKeys(c).keys IN
        /\ Len(keys) = 7
        /\ \A i \in 1..Len(keys) : keys[i].Key \in DOMAIN d /\ d[keys[i].Key] = keys[i].Value

\* C1: two concurrent ConfigureDatabase calls with newDatabase = true and
\* distinct tokens on an empty store, with no failure injected by the store:
\* exactly one returns nil and the other returns the error "Database has
\* already been created".
C1_ExactlyOneCreates ==
    ( /\ StartedEmpty
      /\ faults = 0
      /\ \A p \in Procs :
             /\ Configured(p) /\ Returned(p)
             /\ call[p].newDatabase
             /\ ValidConfiguration(call[p].configuration)
             /\ ops[p].concurrent
      /\ \A p, q \in Procs : p # q => call[p].initID # call[q].initID )
    => \E p, q \in Procs :
           /\ p # q
           /\ result[p] = Nil
           /\ result[q] = DatabaseAlreadyCreated

\* C2: a round of the race check whose read of the marker succeeds returns
\* nil when the marker equals the call's token, and the error "Database has
\* already been created" when it does not.
C2_RaceCheckOutcome ==
    [][ \A p \in Procs :
            (pc[p] = "racecheck" /\ pc'[p] = "idle" /\ faults' = faults)
            => IF Read(db, initIDKey) = [present |-> TRUE, value |-> call[p].initID]
               THEN result'[p] = Nil
               ELSE result'[p] = DatabaseAlreadyCreated ]_vars

\* C3: an attempt of ConfigureDatabase with newDatabase = false that reads a
\* store whose seven keys hold the desired values issues no set, and the
\* commit step of such a call on such a store leaves the store as it is.
C3_UnchangedConfigurationWritesNothing ==
    [][ \A p \in Procs :
            (Configured(p) /\ ~call[p].newDatabase
             /\ HoldsConfiguration(db, call[p].configuration))
            => /\ (pc[p] = "apply" /\ pc'[p] = "commit") => tr'[p].writes = <<>>
               /\ (pc[p] = "commit" /\ pc'[p] # "commit") => db' = db ]_vars

\* the same configuration applied twice in sequence: the second apply, not
\* new, has read the seven keys and has nothing to set
C3_Witness ==
    \E p \in Procs :
        /\ Configured(p) /\ ~call[p].newDatabase
        /\ pc[p] = "commit"
        /\ tr[p].gets = 7 /\ tr[p].writes = <<>>
        /\ Len(log) >= 1
        /\ log[Len(log)].proc \in Procs
        /\ log[Len(log)].call.configuration = call[p].configuration
        /\ HoldsConfiguration(db, call[p].configuration)

\* C4: ConfigureDatabase never returns an error the store classifies as
\* retryable: it returns nil, the outcome of the race check, the error of the
\* key builder or a store error that is not retryable.
C4_NoRetryableErrorReturned ==
    \A p \in Procs :
        (Configured(p) /\ Returned(p))
        => /\ result[p].kind = "fdb" => result[p].code \notin RetryableCodes
           /\ \/ result[p] = Nil
              \/ ops[p].exit = "raceLost"
              \/ result[p].kind = "fmt"
              \/ result[p].kind = "fdb" /\ ops[p].exit = "fatal"

\* a call that met a retryable failure and returned nil all the same
C4_Witness ==
    \E p \in Procs :
        /\ Configured(p) /\ Returned(p)
        /\ ops[p].absorbed
        /\ result[p] = Nil

\* C9: for a configuration with an unknown mode or an unknown engine the key
\* builder returns an error and no keys, and ConfigureDatabase returns that
\* error without a get, a set or a commit and without a retry.
C9_InvalidConfigurationIsTerminal ==
    /\ \A c \in Configurations :
           ~ValidConfiguration(c)
           => getConfigurationKeys(c).err.kind = "fmt" /\ getConfigurationKeys(c).keys = <<>>
    /\ \A p \in Procs :
           (Configured(p) /\ ~ValidConfiguration(call[p].configuration))
           => /\ pc[p] \in {"apply", "idle"}
              /\ ~ops[p].get /\ ~ops[p].set /\ ~ops[p].commit /\ ~ops[p].absorbed
              /\ Returned(p) => result[p] = getConfigurationKeys(call[p].configuration).err

\* a call with a valid mode and an unknown engine has returned the error
C9_Witness ==
    \E p \in Procs :
        /\ Configured(p) /\ Returned(p)
        /\ call[p].configuration = Configuration("single", "ssd-2")
        /\ result[p] = UnknownStorageEngine

\* the committed ConfigureDatabase calls
CommittedConfigurations ==
    { log[i].call.configuration :
          i \in {j \in 1..Len(log) : log[j].call.op = "ConfigureDatabase"} }

\* C10: in every state the seven configuration keys are all absent, or hold
\* together the key-value set of one configuration of a committed call.
C10_ConfigurationKeysAreAtomic ==
    \/ DOMAIN db \cap ConfigurationKeySet = {}
    \/ \E c \in CommittedConfigurations : HoldsConfiguration(db, c)

\* two committed calls with different configurations, the later one not new
\* and committed after a conflict with the other
C10_Witness ==
    /\ faults = 0
    /\ \E p, q \in Procs :
           /\ p # q
           /\ Configured(p) /\ Returned(p) /\ result[p] = Nil /\ ~call[p].newDatabase
           /\ Configured(q) /\ Returned(q) /\ result[q] = Nil
           /\ ops[p].absorbed
           /\ call[p].configuration # call[q].configuration
           /\ HoldsConfiguration(db, call[p].configuration)

HasPrefix(k, prefix) ==
    Len(k) >= Len(prefix) /\ SubSeq(k, 1, Len(prefix)) = prefix

\* the keys of d under "\xff/conf/excluded/", and the addresses they name
ExclusionKeys(d) == {k \in DOMAIN d : HasPrefix(k, excludedPrefix)}

AddressOf(k) == SubSeq(k, Len(excludedPrefix) + 1, Len(k))

ExcludedAddresses(d) == {AddressOf(k) : k \in ExclusionKeys(d)}

IsExclusionEntry(e) == e.call.op \in {"ExcludeInstances", "IncludeInstances"}

\* the committed exclusion transactions, in the order of their commits
ExclusionLog == SelectSeq(log, IsExclusionEntry)

\* include(A) takes x out of the exclusion set
Included(x, addresses) ==
    \E i \in 1..Len(addresses) :
        x = addresses[i] \/ HasPrefix(x, addresses[i] \o <<58>>)

\* the exclusion set after the calls of the entries 1..n of l, one after another
RECURSIVE SerialResult(_, _)
SerialResult(l, n) ==
    IF n = 0 THEN {}
    ELSE LET before == SerialResult(l, n - 1)
             c == l[n].call
         IN  IF c.op = "ExcludeInstances"
             THEN before \cup {c.addresses[i] : i \in 1..Len(c.addresses)}
             ELSE {x \in before : ~Included(x, c.addresses)}

Excluding(p) == call[p].op \in {"ExcludeInstances", "IncludeInstances"}

\* C5: two committed exclusion transactions never have overlapping
\* snapshots (the later one read at or after the commit of the earlier one),
\* and the exclusion set is the result of the committed calls one after
\* another in the order of their commits.
C5_ExclusionChangesAreSerialized ==
    /\ \A i, j \in 1..Len(ExclusionLog) :
           i < j => ExclusionLog[j].rv >= ExclusionLog[i].cv
    /\ ExcludedAddresses(db) = SerialResult(ExclusionLog, Len(ExclusionLog))

\* two concurrent calls with disjoint address lists have both committed, one
\* of them after a conflict with the other
C5_Witness ==
    /\ faults = 0
    /\ \E p, q \in Procs :
           /\ p # q
           /\ Excluding(p) /\ Returned(p) /\ result[p] = Nil
           /\ Excluding(q) /\ Returned(q) /\ result[q] = Nil
           /\ ops[p].concurrent /\ ops[p].absorbed
           /\ call[p].addresses = <<host1>>
           /\ call[q].addresses = <<host1port, host10>>

\* the calls of the committed exclusion transactions
CommittedExclusionCalls ==
    [i \in 1..Len(ExclusionLog) |->
        <<ExclusionLog[i].call.op, ExclusionLog[i].call.addresses>>]

\* C6: from an empty exclusion set, a committed ExcludeInstances(A) followed
\* by a committed IncludeInstances(A) leaves no key under the exclusion prefix.
C6_ExcludeThenIncludeIsEmpty ==
    \A a \in AddressLists :
        CommittedExclusionCalls = << <<"ExcludeInstances", a>>, <<"IncludeInstances", a>> >>
        => ExclusionKeys(db) = {}

C6_Witness ==
    /\ CommittedExclusionCalls =
           << <<"ExcludeInstances", <<host1port, host10>> >>,
              <<"IncludeInstances", <<host1port, host10>> >> >>
    /\ ExclusionKeys(db) = {}

\* C7: the commit of IncludeInstances(A) removes the exclusion entries whose
\* address is in A or begins with an address of A and a colon, and no other
\* entry; every other key but the epoch key keeps its value.
C7_IncludeRemovesExactlyItsAddresses ==
    [][ (Len(log') = Len(log) + 1 /\ log'[Len(log')].call.op = "IncludeInstances")
        => LET a == log'[Len(log')].call.addresses IN
               /\ ExclusionKeys(db') =
                      {k \in ExclusionKeys(db) : ~Included(AddressOf(k), a)}
               /\ \A k \in DOMAIN db' \ {excludedKey} :
                      k \in DOMAIN db /\ db'[k] = db[k]
               /\ \A k \in DOMAIN db \ ExclusionKeys(db) : k \in DOMAIN db' ]_vars

\* "10.0.0.1" included after "10.0.0.1:4500" and "10.0.0.10" were excluded:
\* only "10.0.0.10" is left
C7_Witness ==
    /\ CommittedExclusionCalls =
           << <<"ExcludeInstances", <<host1port, host10>> >>,
              <<"IncludeInstances", <<host1>> >> >>
    /\ ExcludedAddresses(db) = {host10}

\* C8 as claimed: a call whose commit has been answered returns; the function
\* is not run again.
C8_SingleAttempt ==
    [][ \A p \in Procs :
            (pc[p] = "txcommit" /\ pc'[p] # "txcommit") => pc'[p] = "idle" ]_vars

\* C8, amended: ExcludeInstances and IncludeInstances add no retry to that of
\* Database.Transact: a call returns nil, its transaction committed, or a
\* store error that is not retryable; a retryable failure of the commit, a
\* conflict included, is not returned.
C8_OnlyNonRetryableErrorsPropagate ==
    \A p \in Procs :
        (Excluding(p) /\ Returned(p))
        => \/ /\ result[p] = Nil
              /\ \E i \in 1..Len(log) : log[i].proc = p /\ log[i].call = call[p]
           \/ /\ result[p].kind = "fdb"
              /\ result[p].code \notin RetryableCodes

\* a call whose first commit was refused for a conflict has returned nil
C8_Witness ==
    /\ faults = 0
    /\ \E p \in Procs :
           /\ Excluding(p) /\ Returned(p)
           /\ ops[p].absorbed
           /\ result[p] = Nil

\* the nine sets of an attempt on a new database: the marker, the flag and the
\* seven keys of the configuration, in the order of lines 212-231
NineSets(c) ==
    LET keys == getConfigurationKeys(c.configuration).keys IN
        <<SetOp(initIDKey, c.initID), SetOp(initializedKey, <<49>>)>>
        \o [i \in 1..7 |-> SetOp(keys[i].Key, keys[i].Value)]

\* the last commit was that of a ConfigureDatabase(configuration, true) of a
\* caller of this behaviour, and the database holds what it wrote
CommittedResultOf(configuration) ==
    /\ log # <<>>
    /\ log[Len(log)].proc \in Procs
    /\ log[Len(log)].call.op = "ConfigureDatabase"
    /\ log[Len(log)].call.newDatabase
    /\ log[Len(log)].call.configuration = configuration
    /\ db = ApplyMutations(<<>>, NineSets(log[Len(log)].call))

\* C11: every attempt of ConfigureDatabase with newDatabase = true issues no
\* get and exactly nine sets whatever the store holds: the marker set to the
\* token of the call, the flag set to "1" and the seven configuration keys; an
\* attempt with newDatabase = false of the same configuration on the committed
\* result issues no set.
C11_NewDatabaseAttemptSetsNineKeys ==
    [][ \A p \in Procs :
            (Configured(p) /\ pc[p] = "apply" /\ pc'[p] = "commit")
            => IF call[p].newDatabase
               THEN /\ tr'[p].gets = 0
                    /\ Len(tr'[p].writes) = 9
                    /\ tr'[p].writes = NineSets(call[p])
                    /\ {tr'[p].writes[i].key : i \in 3..9} = ConfigurationKeySet
                    /\ \A i \in 1..9 : tr'[p].writes[i].op = "set"
               ELSE CommittedResultOf(call[p].configuration)
                    => tr'[p].writes = <<>> ]_vars

\* double/ssd was committed to an empty store with nine sets, and the call of
\* another client with the same configuration, not new, has nothing to set
C11_Witness ==
    \E p, q \in Procs :
        /\ p # q
        /\ Len(log) = 1 /\ log[1].proc = q /\ log[1].call = call[q]
        /\ call[q].newDatabase
        /\ call[q].configuration = Configuration("double", "ssd")
        /\ Cardinality(DOMAIN db) = 9
        /\ Configured(p) /\ ~call[p].newDatabase
        /\ call[p].configuration = call[q].configuration
        /\ pc[p] = "commit" /\ tr[p].gets = 7 /\ tr[p].writes = <<>>

\* the documented policy values, byte by byte: the tag 01 00 04 51 A5 00 DB 0F,
\* then LE32(3) "One" for single, and LE32(6) "Across" LE32(6) "zoneid"
\* LE32(count) LE32(3) "One" for double (count 2) and triple (count 3)
GoldenPolicy(mode) ==
    CASE mode = "single" ->
             <<1, 0, 4, 81, 165, 0, 219, 15,  3, 0, 0, 0,  79, 110, 101>>
      [] mode = "double" ->
             <<1, 0, 4, 81, 165, 0, 219, 15,
               6, 0, 0, 0,  65, 99, 114, 111, 115, 115,
               6, 0, 0, 0,  122, 111, 110, 101, 105, 100,
               2, 0, 0, 0,
               3, 0, 0, 0,  79, 110, 101>>
      [] mode = "triple" ->
             <<1, 0, 4, 81, 165, 0, 219, 15,
               6, 0, 0, 0,  65, 99, 114, 111, 115, 115,
               6, 0, 0, 0,  122, 111, 110, 101, 105, 100,
               3, 0, 0, 0,
               3, 0, 0, 0,  79, 110, 101>>

PolicyKeys == {storageReplicationPolicyKey, logReplicationPolicyKey}

\* C12: for single, double and triple the storage and log replication policy
\* values of getConfigurationKeys are the documented bytes: in the list the
\* builder returns for the configuration of a call, in every set an attempt
\* issues for a policy key, and in the store (created with triple).
C12_PolicyEncodingIsGolden ==
    /\ \A p \in Procs :
           (Configured(p) /\ pc[p] = "apply" /\ ValidConfiguration(call[p].configuration))
           => LET keys == getConfigurationKeys(call[p].configuration).keys
                  golden == GoldenPolicy(call[p].configuration.ReplicationMode)
              IN  /\ keys[4] = KeyValue(storageReplicationPolicyKey, golden)
                  /\ keys[5] = KeyValue(logReplicationPolicyKey, golden)
    /\ \A p \in Procs :
           (Configured(p) /\ pc[p] = "commit")
           => \A i \in 1..Len(tr[p].writes) :
                  tr[p].writes[i].key \in PolicyKeys
                  => tr[p].writes[i].value =
                         GoldenPolicy(call[p].configuration.ReplicationMode)
    /\ \A k \in PolicyKeys \cap DOMAIN db :
           \E c \in CommittedConfigurations : db[k] = GoldenPolicy(c.ReplicationMode)

\* the store was created with triple, a call has committed double, and the
\* attempt of a call with single sets both policy keys
C12_Witness ==
    \E p, q \in Procs :
        /\ p # q
        /\ log # <<>> /\ PolicyKeys \subseteq DOMAIN db
        /\ log[1].proc = "p0" /\ log[1].call.configuration.ReplicationMode = "triple"
        /\ Configured(q) /\ Returned(q) /\ result[q] = Nil
        /\ call[q].configuration.ReplicationMode = "double"
        /\ db[storageReplicationPolicyKey] = GoldenPolicy("double")
        /\ db[logReplicationPolicyKey] = GoldenPolicy("double")
        /\ Configured(p) /\ pc[p] = "commit"
        /\ call[p].configuration.ReplicationMode = "single"
        /\ \E i, j \in 1..Len(tr[p].writes) :
               /\ tr[p].writes[i] = SetOp(storageReplicationPolicyKey, GoldenPolicy("single"))
               /\ tr[p].writes[j] = SetOp(logReplicationPolicyKey, GoldenPolicy("single"))

\* the sets an attempt of call c may issue: those of its token and of the
\* key-value list of its configuration
SetsOfCall(c) ==
    LET keys == getConfigurationKeys(c.configuration).keys IN
        {SetOp(initIDKey, c.initID), SetOp(initializedKey, <<49>>)}
        \cup {SetOp(keys[i].Key, keys[i].Value) : i \in 1..Len(keys)}

\* C13: within one ConfigureDatabase call the token and the configuration do
\* not change and a token is drawn only when a call starts; every attempt, the
\* first and each retry, issues sets of that token and that key-value list;
\* the race check compares the marker with that token; and a store failure
\* that is not retryable ends the call with that failure.
C13_OneTokenOneKeyListPerCall ==
    [][ /\ nextID' # nextID => \E q \in Procs : pc[q] = "idle" /\ pc'[q] = "apply"
        /\ \A p \in Procs :
            (Configured(p) /\ pc[p] # "idle")
            => /\ call'[p] = call[p]
               /\ (pc[p] = "apply" /\ pc'[p] = "commit")
                  => /\ \A i \in 1..Len(tr'[p].writes) : tr'[p].writes[i] \in SetsOfCall(call[p])
                     /\ call[p].newDatabase => tr'[p].writes[1] = SetOp(initIDKey, call[p].initID)
               /\ (pc[p] = "racecheck" /\ pc'[p] = "idle" /\ faults' = faults)
                  => (ops'[p].exit = "raceWon"
                      <=> Read(db, initIDKey) = [present |-> TRUE, value |-> call[p].initID])
               /\ ops'[p].failure \notin RetryableCodes \cup {0}
                  => pc'[p] = "idle" /\ result'[p] = FdbError(ops'[p].failure) ]_vars

\* the second attempt of a call on a new database, after a retryable failure
\* of its first commit, carries the token and the nine sets of the call
C13_Witness ==
    \E p \in Procs :
        /\ Configured(p) /\ call[p].newDatabase
        /\ pc[p] = "commit"
        /\ ops[p].absorbed /\ ops[p].commit /\ ops[p].failure \in RetryableCodes
        /\ tr[p].writes = NineSets(call[p])

\* the attempt with write list writes sets key k
Sets(writes, k) == \E j \in 1..Len(writes) : writes[j].op = "set" /\ writes[j].key = k

\* C14: an attempt of ConfigureDatabase with newDatabase = false sets a
\* configuration key if and only if the value it read for the key is not,
\* byte for byte, the desired value (an absent key is different); what it sets
\* is the desired value; it issues nothing else, and sets neither the marker
\* nor the flag.
C14_SetsExactlyTheDifferingKeys ==
    [][ \A p \in Procs :
            (Configured(p) /\ ~call[p].newDatabase /\ pc[p] = "apply" /\ pc'[p] = "commit")
            => LET keys == getConfigurationKeys(call[p].configuration).keys
                   writes == tr'[p].writes
               IN  /\ \A i \in 1..Len(keys) :
                          Sets(writes, keys[i].Key)
                          <=> ~( keys[i].Key \in DOMAIN db
                                 /\ db[keys[i].Key] = keys[i].Value )
                   /\ \A j \in 1..Len(writes) :
                          \E i \in 1..Len(keys) :
                              writes[j] = SetOp(keys[i].Key, keys[i].Value)
                   /\ ~Sets(writes, initIDKey) /\ ~Sets(writes, initializedKey) ]_vars

\* double/memory applied to a store that holds triple/ssd: the replica counts,
\* the policies and the engines are set, the anti-quorum, which matches, is not
C14_Witness ==
    \E p \in Procs :
        /\ Configured(p) /\ ~call[p].newDatabase
        /\ call[p].configuration = Configuration("double", "memory")
        /\ pc[p] = "commit"
        /\ HoldsConfiguration(db, Configuration("triple", "ssd"))
        /\ Len(tr[p].writes) = 6
        /\ ~Sets(tr[p].writes, logAntiQuorumKey)
        /\ Sets(tr[p].writes, storageEngineKey)

RaceCheckCodes == {notCommitted, transactionTooOld}

\* C15: a call is in the race check, or has returned from it, only if
\* newDatabase is true and the store error it met was 1020 or 1007; a call
\* with newDatabase = false that met 1020 or 1007 retried the attempt; a call
\* with newDatabase = true that met 1020 or 1007 went to the race check, and
\* one that met another store error retried when the error was retryable and
\* returned it when it was not.
C15_RaceCheckOnlyForNewDatabaseConflicts ==
    \A p \in Procs :
        Configured(p)
        => /\ (pc[p] = "racecheck" \/ ops[p].exit \in {"raceWon", "raceLost"})
              => call[p].newDatabase /\ ops[p].failure \in RaceCheckCodes
           /\ (~call[p].newDatabase /\ ops[p].failure \in RaceCheckCodes)
              => ops[p].absorbed /\ pc[p] \in {"apply", "commit", "idle"}
           /\ (call[p].newDatabase /\ ops[p].failure \in RaceCheckCodes)
              => \/ pc[p] = "racecheck"
                 \/ pc[p] = "idle" /\ ops[p].exit \in {"raceWon", "raceLost"}
           /\ (call[p].newDatabase /\ ops[p].failure \notin RaceCheckCodes \cup {0})
              => IF ops[p].failure \in RetryableCodes
                 THEN ops[p].absorbed /\ pc[p] \in {"apply", "commit", "idle"}
                      /\ ops[p].exit \in {"", "commit"}
                 ELSE pc[p] = "idle" /\ ops[p].exit = "fatal"
                      /\ result[p] = FdbError(ops[p].failure)

\* a call with newDatabase = false whose commit was refused for a conflict
\* (1020) is back at the top of the loop, and a call with newDatabase = true
\* is in the race check
C15_Witness ==
    \E p, q \in Procs :
        /\ Configured(p) /\ ~call[p].newDatabase
        /\ ops[p].failure = notCommitted /\ ops[p].absorbed /\ pc[p] = "apply"
        /\ Configured(q) /\ call[q].newDatabase
        /\ ops[q].failure = notCommitted /\ pc[q] = "racecheck"

\* the commits of the call that p is making or has made last
CommitsOf(p) == {i \in 1..Len(log) : log[i].proc = p /\ log[i].call = call[p]}

\* the commit of p's call was applied, and the call was told that it failed
AppliedButReportedFailed(p) ==
    /\ Configured(p) /\ call[p].newDatabase
    /\ CommitsOf(p) # {}
    /\ ~(pc[p] = "idle" /\ ops[p].exit = "commit")

\* C16: a call on a new database whose commit was applied while the store
\* answered with a failure does not return the outcome "already created": its
\* retry does not commit a second time, the race check finds the token of the
\* call in the marker, and the call returns nil; it returns something else
\* only if the store fails again with an error that is not retryable.
C16_LostCommitAnswerEndsInSuccess ==
    \A p \in Procs :
        AppliedButReportedFailed(p)
        => /\ Cardinality(CommitsOf(p)) = 1
           /\ Read(db, initIDKey) = [present |-> TRUE, value |-> call[p].initID]
           /\ Returned(p)
              => /\ ops[p].exit # "raceLost" /\ result[p] # DatabaseAlreadyCreated
                 /\ \/ ops[p].exit = "raceWon" /\ result[p] = Nil
                    \/ /\ faults >= 2
                       /\ ops[p].exit = "fatal"
                       /\ result[p].kind = "fdb" /\ result[p].code \notin RetryableCodes \cup {0}

\* the answer to the commit was lost (1021), the retry was refused (1020), and
\* the race check found the token of the call: nil
C16_Witness ==
    \E p \in Procs :
        /\ AppliedButReportedFailed(p) /\ Returned(p)
        /\ faults = 1 /\ ops[p].absorbed /\ ops[p].failure = notCommitted
        /\ ops[p].exit = "raceWon" /\ result[p] = Nil

\* the call of p has returned from line 164, the return of the race check for
\* the error "Database has already been created"
EndedAlreadyCreated(p) ==
    Configured(p) /\ call[p].newDatabase /\ Returned(p) /\ ops[p].exit = "raceLost"

\* C17: a call on a new database ends with the outcome "already created" only
\* if the marker holds the token of a committed attempt of another call; with
\* the marker absent it does not.
C17_AlreadyCreatedOnlyIfAnotherTokenCommitted ==
    \A p \in Procs :
        EndedAlreadyCreated(p)
        => /\ Read(db, initIDKey).present
           /\ Read(db, initIDKey).value # call[p].initID
           /\ \E i \in 1..Len(log) :
                  /\ log[i].call.op = "ConfigureDatabase" /\ log[i].call.newDatabase
                  /\ log[i].call # call[p]
                  /\ log[i].call.initID = Read(db, initIDKey).value

\* a step keeps a marker that is present, and with a marker present no apply
\* with newDatabase = true is committed
MarkerKept ==
    initIDKey \in DOMAIN db
    => /\ initIDKey \in DOMAIN db' /\ db'[initIDKey] = db[initIDKey]
       /\ Len(log') > Len(log) => ~log'[Len(log')].call.newDatabase

\* a call on a new database returns while the marker holds the token of
\* another call
LosesToCommittedMarker(p) ==
    /\ Configured(p) /\ call[p].newDatabase
    /\ ValidConfiguration(call[p].configuration)
    /\ initIDKey \in DOMAIN db /\ db[initIDKey] # call[p].initID
    /\ pc[p] # "idle" /\ pc'[p] = "idle"

\* C18: once an attempt with newDatabase = true has committed its token to the
\* marker, no step changes the marker and no apply with newDatabase = true is
\* committed (the configuration keys are not overwritten by one); every such
\* apply that returns, not ended by a store failure that is not retryable,
\* returns the error "Database has already been created".
C18_MarkerIsWriteOnce ==
    [][ /\ MarkerKept
        /\ \A p \in Procs :
               LosesToCommittedMarker(p)
               => \/ result'[p] = DatabaseAlreadyCreated
                  \/ ops'[p].exit = "fatal" ]_vars

\* the write-once half of C18 alone
C18_MarkerKept == [][MarkerKept]_vars

\* a step of the loop of a running call: the attempt, the answer to its
\* commit, a round of the race check
LoopStep ==
    \E p \in Procs : configureDatabaseInTransaction(p) \/ Commit(p) \/ RaceCheck(p)

\* ConfigureDatabase runs on the goroutine of its caller and blocks only in
\* calls to the store, which answer: while a call is running, a step of a
\* running call is taken.  The store answers with at most MaxFaults failures.
FairConfigure == WF_vars(LoopStep)

\* the configurations of the calls whose termination is checked: a valid one
\* and one the key builder refuses.  Which rounds the loops make depends on
\* newDatabase, on the conflicts between the calls, on the failures of the
\* store and on the error of the key builder, not on the values of the keys.
FairConfigurations ==
    {Configuration("double", "ssd"), Configuration("single", "ssd-2")}

NextConfigureFair ==
    \E p \in Procs :
        \/ \E c \in FairConfigurations, n \in BOOLEAN : ConfigureDatabase(p, c, n)
        \/ configureDatabaseInTransaction(p)
        \/ Commit(p)
        \/ RaceCheck(p)

SpecConfigureFair == Init /\ [][NextConfigureFair]_vars /\ FairConfigure

\* C19: every ConfigureDatabase call returns, the store answering with
\* finitely many retryable failures and the steps of the call being taken.
C19_EveryCallReturns ==
    \A p \in Procs : (pc[p] # "idle") ~> (pc[p] = "idle" /\ result[p] # NoResult)

\* a call has returned after the apply loop and the race-check loop have each
\* gone round: a conflict, and a retryable failure of the marker read
C19_Witness ==
    \E p \in Procs :
        /\ Configured(p) /\ Returned(p)
        /\ ops[p].exit \in {"raceWon", "raceLost"}
        /\ ops[p].absorbed /\ ops[p].failure = transactionTooOld
        /\ faults = 1

\* the addresses of MockAdminClient.ExcludedAddresses, as a set
MockExcluded == {mock.ExcludedAddresses[i] : i \in 1..Len(mock.ExcludedAddresses)}

\* C20: after a sequence of ExcludeInstances and IncludeInstances calls made
\* on both clients from an empty exclusion state, every call on the store
\* returned and none failed by the store, the addresses of
\* MockAdminClient.ExcludedAddresses are the addresses that have a key under
\* the exclusion prefix.
C20_MockMatchesStore ==
    ( /\ \A p \in Procs : pc[p] = "idle"
      /\ faults = 0 )
    => MockExcluded = ExcludedAddresses(db)

====
